---- MODULE Spec2Model ----
(***************************************************************************)
(* Model of gitlab-export.py: the member normalizer (format_members and    *)
(* access_level_name), the three entity exporters walking server-paginated *)
(* collections and writing buffered CSV sinks, and main's sequencing.      *)
(*                                                                         *)
(* Strings are sequences of character codes (code points), so that         *)
(* Python's str ordering, str(int) and ";".join are modelled by what they  *)
(* do.  An optional value (None / absent attribute) is the empty tuple,    *)
(* a present value v is <<v>>.                                             *)
(***************************************************************************)
EXTENDS Integers, Sequences, FiniteSets, TLC

----------------------------------------------------------------------------
(* Bounds of the model *)

\* number of projects the server knows (ids 1..NumProjects)
NumProjects == 3
\* largest number of groups / users the server may hold
MaxEntities == 3
\* entities (and membership entries) per server page
PageSize == 2
\* how many times the server may flip a project's archived status in a run
MaxToggles == 1
\* longest membership sequence given to format_members on its own
MaxMembers == 3

----------------------------------------------------------------------------
(* Strings *)

Range(s) == {s[i] : i \in DOMAIN s}

Min(a, b) == IF a < b THEN a ELSE b

\* Python's str "<": code-point lexicographic order, a proper prefix is smaller
RECURSIVE LexLess(_, _)
LexLess(a, b) ==
    IF b = <<>> THEN FALSE
    ELSE IF a = <<>> THEN TRUE
    ELSE IF Head(a) # Head(b) THEN Head(a) < Head(b)
    ELSE LexLess(Tail(a), Tail(b))

\* decimal digits of a natural number
RECURSIVE Digits(_)
Digits(n) ==
    IF n < 10 THEN <<48 + n>> ELSE Digits(n \div 10) \o <<48 + (n % 10)>>

\* Python's str(int)
IntToStr(n) == IF n < 0 THEN <<45>> \o Digits(0 - n) ELSE Digits(n)

\* the literal texts of the source
StrGuest == <<71, 117, 101, 115, 116>>
StrReporter == <<82, 101, 112, 111, 114, 116, 101, 114>>
StrDeveloper == <<68, 101, 118, 101, 108, 111, 112, 101, 114>>
StrMaintainer == <<77, 97, 105, 110, 116, 97, 105, 110, 101, 114>>
StrOwner == <<79, 119, 110, 101, 114>>
StrUserId == <<117, 115, 101, 114, 95, 105, 100, 95>>
StrColon == <<58>>
StrSemi == <<59>>

ACCESS_LEVELS ==
    (10 :> StrGuest) @@ (20 :> StrReporter) @@ (30 :> StrDeveloper)
      @@ (40 :> StrMaintainer) @@ (50 :> StrOwner)

access_level_name_unmapped_empty(level) ==
    IF level = <<>> THEN <<>>
    ELSE IF level[1] \in DOMAIN ACCESS_LEVELS THEN ACCESS_LEVELS[level[1]]
    ELSE <<>>

access_level_name(level) ==
    IF level = <<>> THEN <<>>
    ELSE IF level[1] \in DOMAIN ACCESS_LEVELS THEN ACCESS_LEVELS[level[1]]
    ELSE IntToStr(level[1])

\* f"{ident}:{role}" of one membership entry (the body of format_members' loop)
member_part(m) ==
    LET username == m.username
        name == m.name
        role == access_level_name(m.access_level)
        ident0 == IF username # <<>> THEN username ELSE name
        ident == IF ident0 = <<>>
                 THEN StrUserId \o (IF m.id = <<>> THEN <<>> ELSE IntToStr(m.id[1]))
                 ELSE ident0
    IN ident \o StrColon \o role

\* sorted(S) for a finite set of strings
RECURSIVE sorted(_)
sorted(S) ==
    IF S = {} THEN <<>>
    ELSE LET least == CHOOSE x \in S : \A y \in S \ {x} : LexLess(x, y)
         IN <<least>> \o sorted(S \ {least})

\* ";".join(seq)
RECURSIVE join(_)
join(seq) ==
    IF seq = <<>> THEN <<>>
    ELSE IF Len(seq) = 1 THEN seq[1]
    ELSE seq[1] \o StrSemi \o join(Tail(seq))

format_members_keep_order(members_iter) ==
    join([i \in 1..Len(members_iter) |-> member_part(members_iter[i])])

format_members(members_iter) ==
    LET members_parts == [i \in 1..Len(members_iter) |-> member_part(members_iter[i])]
    IN join(sorted(Range(members_parts)))


----------------------------------------------------------------------------
(* The export run: state *)

\* units into which the sink's buffering may split one written line
LineUnits == 2

VARIABLES
    args,           \* parsed command line: url, token, include_archived, members_scope, sleep
    pc,             \* main: "args", "mkdir", "connect", "seq", "run", "done", "exit2", "aborted"
    stage,          \* the exporter last started: "none", "projects", "archived", "groups", "users"
    pos,            \* position inside the running exporter
    archivedOf,     \* server: archived status of each project
    numGroups,      \* server: the groups are 1..numGroups
    numUsers,       \* server: the users are 1..numUsers
    it,             \* the entity walker: current page, index in it, page number, more pages
    proj,           \* the entity in hand (p, then proj / grp / user)
    count,          \* the exporter's count
    mpage,          \* membership pages fetched for the entity in hand
    written,        \* per file: the lines handed to the csv writer
    exists,         \* the files created in the output directory
    flushed,        \* per file: units of the written lines that reached the disk
    openFile,       \* the file currently open, or "none"
    evts,           \* the last two throttle-relevant events of the running exporter
    stageLog,       \* start and end of each exporter, in order
    printed,        \* the output path was printed on stdout
    errReported,    \* an "ERROR: ..." line was printed on stderr
    exitStatus,     \* the process exit status once pc is a final one
    outdirCreated,  \* outdir.mkdir was called
    clientMade,     \* gitlab.Gitlab(...) was constructed
    netUsed,        \* some request was sent to the server
    toggles,        \* how many archived flips the server made
    delivered,      \* per stage: the entities the walker yielded, in order
    failStage,      \* where a fetch failed: "none", "auth" or a stage
    failK,          \* index of the entity being processed when the fetch failed
    M1, M2,         \* two membership sequences given to format_members
    out1, out2,     \* their member summaries
    fmDone,         \* out1 and out2 are computed
    entry,          \* one membership entry
    token,          \* format_members of that entry alone
    tokDone         \* token is computed

runVars == <<args, pc, stage, pos, archivedOf, numGroups, numUsers, it, proj, count,
             mpage, written, exists, flushed, openFile, evts, stageLog, printed, errReported,
             exitStatus, outdirCreated, clientMade, netUsed, toggles, delivered, failStage, failK>>
pureVars == <<M1, M2, out1, out2, fmDone, entry, token, tokDone>>
vars == <<runVars, pureVars>>

Stages == {"projects", "archived", "groups", "users"}
ProjectStages == {"projects", "archived"}
HasMembers(s) == s \in {"projects", "archived", "groups"}

----------------------------------------------------------------------------
(* Membership entries the server holds *)

Entry(u, n, i, a) == [username |-> u, name |-> n, id |-> i, access_level |-> a]

\* b / Developer, by username
EntB == Entry(<<98>>, <<>>, <<1>>, <<30>>)
\* b / Developer again, by display name only (an inherited grant)
EntBName == Entry(<<>>, <<98>>, <<2>>, <<30>>)
\* a / Maintainer
EntA == Entry(<<97>>, <<120>>, <<3>>, <<40>>)
\* neither username nor name, no access level
EntAnon == Entry(<<>>, <<>>, <<7>>, <<>>)
\* a with an access level the table does not know
EntA7 == Entry(<<97>>, <<>>, <<3>>, <<7>>)

MemberUniverse == {EntB, EntBName, EntA, EntAnon, EntA7}

direct_members(s, id) ==
    IF s \in ProjectStages
    THEN (IF id = 1 THEN <<EntB>> ELSE IF id = 2 THEN <<EntB, EntA7>> ELSE <<>>)
    ELSE (IF id = 1 THEN <<EntA>> ELSE <<>>)

inherited_members(s) == IF s \in ProjectStages THEN <<EntBName, EntAnon>> ELSE <<EntAnon>>

\* proj.members_all.list / proj.members.list
members_list(s, id, scope) ==
    IF scope = "all" THEN direct_members(s, id) \o inherited_members(s)
    ELSE direct_members(s, id)

MemberPageCount(ms) ==
    IF Len(ms) = 0 THEN 1 ELSE (Len(ms) + PageSize - 1) \div PageSize

----------------------------------------------------------------------------
(* The server's collections and the walker *)

RECURSIVE IdSeq(_)
IdSeq(S) ==
    IF S = {} THEN <<>>
    ELSE LET least == CHOOSE x \in S : \A y \in S : x <= y
         IN <<least>> \o IdSeq(S \ {least})

\* what the list endpoint of stage s holds now, in server order
Collection(s) ==
    IF s = "projects" THEN IdSeq({p \in 1..NumProjects : ~archivedOf[p]})
    ELSE IF s = "archived" THEN IdSeq({p \in 1..NumProjects : archivedOf[p]})
    ELSE IF s = "groups" THEN [i \in 1..numGroups |-> i]
    ELSE [i \in 1..numUsers |-> i]

list_page_first_only(s, k) ==
    LET c == Collection(s)
    IN [items |-> SubSeq(c, (k - 1) * PageSize + 1, Min(k * PageSize, Len(c))),
        idx |-> 0, page |-> k, more |-> FALSE]

list_page_unfiltered(s, k) ==
    LET c == IF s \in ProjectStages THEN [i \in 1..NumProjects |-> i] ELSE Collection(s)
    IN [items |-> SubSeq(c, (k - 1) * PageSize + 1, Min(k * PageSize, Len(c))),
        idx |-> 0, page |-> k, more |-> k * PageSize < Len(c)]

\* page k of the listing as iter_all's iterator holds it
list_page(s, k) ==
    LET c == Collection(s)
    IN [items |-> SubSeq(c, (k - 1) * PageSize + 1, Min(k * PageSize, Len(c))),
        idx |-> 0, page |-> k, more |-> k * PageSize < Len(c)]

NoPage == [items |-> <<>>, idx |-> 0, page |-> 0, more |-> FALSE]
NoEntity == [id |-> 0, archived |-> FALSE]

----------------------------------------------------------------------------
(* The output sinks *)

\* one line of a CSV file; cols names the file's column set
Line(s, k, i, a, m) == [cols |-> s, kind |-> k, id |-> i, archived |-> a, members |-> m]

\* writer.writeheader()
Header(s) == Line(s, "header", 0, FALSE, <<>>)

\* the dict given to writer.writerow for entity e of stage s with members ms
Row(s, e, ms) ==
    Line(s, "row", e.id, e.archived, IF HasMembers(s) THEN format_members(ms) ELSE <<>>)

TotalUnits(f) == LineUnits * Len(written[f])

flush_nothing(f) == flushed

\* closing the file (the with block's exit) empties the buffer to the disk
flush_all(f) == [flushed EXCEPT ![f] = TotalUnits(f)]


----------------------------------------------------------------------------
(* The export run: actions *)

StrUrl == <<104>>
StrTok == <<116>>

RunInit ==
    /\ args \in [url : {<<>>, StrUrl}, token : {<<>>, StrTok},
                 include_archived : BOOLEAN, members_scope : {"all", "direct"},
                 sleep : {0, 1}]
    /\ archivedOf \in [1..NumProjects -> BOOLEAN]
    /\ numGroups \in 0..MaxEntities
    /\ numUsers \in 0..MaxEntities

RunStart ==
    /\ pc = "args"
    /\ stage = "none"
    /\ pos = "none"
    /\ it = NoPage
    /\ proj = NoEntity
    /\ count = 0
    /\ mpage = 0
    /\ written = [f \in Stages |-> <<>>]
    /\ exists = {}
    /\ flushed = [f \in Stages |-> 0]
    /\ openFile = "none"
    /\ evts = <<"none", "none">>
    /\ stageLog = <<>>
    /\ printed = FALSE
    /\ errReported = FALSE
    /\ exitStatus = 0
    /\ outdirCreated = FALSE
    /\ clientMade = FALSE
    /\ netUsed = FALSE
    /\ toggles = 0
    /\ delivered = [f \in Stages |-> <<>>]
    /\ failStage = "none"
    /\ failK = 0

PureIdle ==
    /\ M1 = <<>>
    /\ M2 = <<>>
    /\ out1 = <<>>
    /\ out2 = <<>>
    /\ fmDone = FALSE
    /\ entry = EntAnon
    /\ token = <<>>
    /\ tokDone = FALSE

Init == RunInit /\ RunStart /\ PureIdle

\* a request goes to the server
ApiCall == /\ evts' = <<evts[2], "api">>
           /\ netUsed' = TRUE

raise_swallowed(s, k) ==
    /\ pc' = "seq"
    /\ exitStatus' = exitStatus
    /\ failStage' = s
    /\ failK' = k
    /\ flushed' = IF openFile # "none" THEN flush_all(openFile) ELSE flushed
    /\ openFile' = "none"
    /\ UNCHANGED <<args, stage, pos, archivedOf, numGroups, numUsers, it, proj, count,
                   mpage, written, exists, stageLog, printed, errReported, outdirCreated,
                   toggles, delivered>>

raise_unflushed(s, k) ==
    /\ pc' = "aborted"
    /\ exitStatus' = 1
    /\ failStage' = s
    /\ failK' = k
    /\ flushed' = flushed
    /\ openFile' = "none"
    /\ UNCHANGED <<args, stage, pos, archivedOf, numGroups, numUsers, it, proj, count,
                   mpage, written, exists, stageLog, printed, errReported, outdirCreated,
                   toggles, delivered>>

\* a fetch raises: nothing catches it, the with block closes the open file,
\* the interpreter ends with status 1
raise(s, k) ==
    /\ pc' = "aborted"
    /\ exitStatus' = 1
    /\ failStage' = s
    /\ failK' = k
    /\ flushed' = IF openFile # "none" THEN flush_all(openFile) ELSE flushed
    /\ openFile' = "none"
    /\ UNCHANGED <<args, stage, pos, archivedOf, numGroups, numUsers, it, proj, count,
                   mpage, written, exists, stageLog, printed, errReported, outdirCreated,
                   toggles, delivered>>

config_missing_url_only(a) == a.url = <<>>

\* if not args.url: ... if not args.token: ... (lines 296-301)
config_missing(a) == a.url = <<>> \/ a.token = <<>>

\* main, lines 296-301
main_check_args ==
    /\ pc = "args"
    /\ IF config_missing(args)
       THEN pc' = "exit2" /\ exitStatus' = 2 /\ errReported' = TRUE
       ELSE pc' = "mkdir" /\ exitStatus' = exitStatus /\ errReported' = errReported
    /\ UNCHANGED <<args, stage, pos, archivedOf, numGroups, numUsers, it, proj, count,
                   mpage, written, exists, flushed, openFile, evts, stageLog, printed,
                   outdirCreated, clientMade, netUsed, toggles, delivered, failStage, failK>>
    /\ UNCHANGED pureVars

\* main, lines 303-304
main_mkdir ==
    /\ pc = "mkdir"
    /\ outdirCreated' = TRUE
    /\ pc' = "connect"
    /\ UNCHANGED <<args, stage, pos, archivedOf, numGroups, numUsers, it, proj, count,
                   mpage, written, exists, flushed, openFile, evts, stageLog, printed, errReported,
                   exitStatus, clientMade, netUsed, toggles, delivered, failStage, failK>>
    /\ UNCHANGED pureVars

\* main line 309 and make_gitlab_client: construct the client, gl.auth()
make_gitlab_client ==
    /\ pc = "connect"
    /\ clientMade' = TRUE
    /\ ApiCall
    /\ \E ok \in BOOLEAN :
          IF ok
          THEN /\ pc' = "seq"
               /\ UNCHANGED <<args, stage, pos, archivedOf, numGroups, numUsers, it, proj,
                              count, mpage, written, exists, flushed, openFile, stageLog,
                              printed, errReported, exitStatus, outdirCreated, toggles, delivered, failStage, failK>>
          ELSE raise("auth", 0)
    /\ UNCHANGED pureVars

next_stage_always_archived(s, include_archived) ==
    IF s = "none" THEN "projects"
    ELSE IF s = "projects" THEN "archived"
    ELSE IF s = "archived" THEN "groups"
    ELSE IF s = "groups" THEN "users"
    ELSE "print"

\* main, lines 311-345: which call follows exporter s
next_stage(s, include_archived) ==
    IF s = "none" THEN "projects"
    ELSE IF s = "projects" THEN (IF include_archived THEN "archived" ELSE "groups")
    ELSE IF s = "archived" THEN "groups"
    ELSE IF s = "groups" THEN "users"
    ELSE "print"

\* main, lines 311-345: call the next exporter, or print the output path
main_sequence ==
    /\ pc = "seq"
    /\ LET n == next_stage(stage, args.include_archived)
       IN IF n = "print"
          THEN /\ printed' = TRUE
               /\ pc' = "done"
               /\ UNCHANGED <<stage, pos>>
          ELSE /\ pc' = "run"
               /\ stage' = n
               /\ pos' = "open"
               /\ UNCHANGED printed
    /\ UNCHANGED <<args, errReported, archivedOf, numGroups, numUsers, it, proj, count,
                   mpage, written, exists, flushed, openFile, evts, stageLog,
                   exitStatus, outdirCreated, clientMade, netUsed, toggles, delivered, failStage, failK>>
    /\ UNCHANGED pureVars

\* export_*: open the file for writing and write the header (lines 104-121)
export_open ==
    /\ pc = "run" /\ pos = "open"
    /\ exists' = exists \cup {stage}
    /\ written' = [written EXCEPT ![stage] = <<Header(stage)>>]
    /\ \E n \in 0..LineUnits : flushed' = [flushed EXCEPT ![stage] = n]
    /\ openFile' = stage
    /\ stageLog' = Append(stageLog, <<"start", stage>>)
    /\ evts' = <<"none", "none">>
    /\ count' = 0
    /\ it' = NoPage
    /\ delivered' = [delivered EXCEPT ![stage] = <<>>]
    /\ pos' = "list"
    /\ UNCHANGED <<args, pc, stage, archivedOf, numGroups, numUsers, proj, mpage,
                   printed, errReported, exitStatus, outdirCreated, clientMade, netUsed, toggles,
                   failStage, failK>>
    /\ UNCHANGED pureVars

\* iter_all(gl.<kind>.list, ...): the first page is requested (line 123)
export_list ==
    /\ pc = "run" /\ pos = "list"
    /\ ApiCall
    /\ \E ok \in BOOLEAN :
          IF ok
          THEN /\ it' = list_page(stage, 1)
               /\ pos' = "next"
               /\ UNCHANGED <<args, pc, stage, archivedOf, numGroups, numUsers, proj,
                              count, mpage, written, exists, flushed, openFile, stageLog,
                              printed, errReported, exitStatus, outdirCreated, toggles, delivered, failStage, failK>>
          ELSE raise(stage, 1)
    /\ UNCHANGED <<clientMade>>
    /\ UNCHANGED pureVars

\* for p in projects: the page in hand is used up and the server has more
export_next_page ==
    /\ pc = "run" /\ pos = "next"
    /\ it.idx = Len(it.items) /\ it.more
    /\ ApiCall
    /\ \E ok \in BOOLEAN :
          IF ok
          THEN /\ it' = list_page(stage, it.page + 1)
               /\ UNCHANGED <<args, pc, stage, pos, archivedOf, numGroups, numUsers, proj,
                              count, mpage, written, exists, flushed, openFile, stageLog,
                              printed, errReported, exitStatus, outdirCreated, toggles, delivered, failStage, failK>>
          ELSE raise(stage, count + 1)
    /\ UNCHANGED <<clientMade>>
    /\ UNCHANGED pureVars

\* for p in projects: count += 1 (lines 126-127)
export_next ==
    /\ pc = "run" /\ pos = "next"
    /\ it.idx < Len(it.items)
    /\ proj' = [id |-> it.items[it.idx + 1], archived |-> FALSE]
    /\ it' = [it EXCEPT !.idx = it.idx + 1]
    /\ count' = count + 1
    /\ delivered' = [delivered EXCEPT ![stage] = Append(@, it.items[it.idx + 1])]
    /\ pos' = "get"
    /\ UNCHANGED <<args, pc, stage, archivedOf, numGroups, numUsers, mpage, written,
                   exists, flushed, openFile, evts, stageLog, printed, errReported, exitStatus,
                   outdirCreated, clientMade, netUsed, toggles, failStage, failK>>
    /\ UNCHANGED pureVars

\* the loop ends, the with block closes the file, the exporter returns
export_close ==
    /\ pc = "run" /\ pos = "next"
    /\ it.idx = Len(it.items) /\ ~it.more
    /\ flushed' = flush_all(stage)
    /\ openFile' = "none"
    /\ stageLog' = Append(stageLog, <<"end", stage>>)
    /\ pc' = "seq"
    /\ pos' = "none"
    /\ UNCHANGED <<args, stage, archivedOf, numGroups, numUsers, it, proj, count, mpage,
                   written, exists, evts, printed, errReported, exitStatus, outdirCreated, clientMade,
                   netUsed, toggles, delivered, failStage, failK>>
    /\ UNCHANGED pureVars

\* gl.projects.get(p.id): the entity as the server holds it now
detail(s, id) == [id |-> id, archived |-> (s \in ProjectStages /\ archivedOf[id])]

\* proj = gl.projects.get(p.id) (lines 128, 191, 253)
export_get ==
    /\ pc = "run" /\ pos = "get"
    /\ ApiCall
    /\ \E ok \in BOOLEAN :
          IF ok
          THEN /\ proj' = detail(stage, proj.id)
               /\ pos' = IF HasMembers(stage) THEN "members" ELSE "row"
               /\ UNCHANGED <<args, pc, stage, archivedOf, numGroups, numUsers, it,
                              count, mpage, written, exists, flushed, openFile, stageLog,
                              printed, errReported, exitStatus, outdirCreated, toggles, delivered, failStage, failK>>
          ELSE raise(stage, count)
    /\ UNCHANGED <<clientMade>>
    /\ UNCHANGED pureVars

\* members_iter = iter_all(proj.members_all.list) or iter_all(proj.members.list):
\* the first membership page is requested (lines 130-133, 193-196)
export_members ==
    /\ pc = "run" /\ pos = "members"
    /\ ApiCall
    /\ \E ok \in BOOLEAN :
          IF ok
          THEN /\ mpage' = 1
               /\ pos' = "row"
               /\ UNCHANGED <<args, pc, stage, archivedOf, numGroups, numUsers, it, proj,
                              count, written, exists, flushed, openFile, stageLog,
                              printed, errReported, exitStatus, outdirCreated, toggles, delivered, failStage, failK>>
          ELSE raise(stage, count)
    /\ UNCHANGED <<clientMade>>
    /\ UNCHANGED pureVars

MembersInHand == members_list(stage, proj.id, args.members_scope)

\* format_members' loop runs out of the page in hand: the next membership page
\* is requested, before writerow is called (line 144 inside lines 135-146)
format_members_next_page ==
    /\ pc = "run" /\ pos = "row" /\ HasMembers(stage)
    /\ mpage < MemberPageCount(MembersInHand)
    /\ ApiCall
    /\ \E ok \in BOOLEAN :
          IF ok
          THEN /\ mpage' = mpage + 1
               /\ UNCHANGED <<args, pc, stage, pos, archivedOf, numGroups, numUsers, it,
                              proj, count, written, exists, flushed, openFile, stageLog,
                              printed, errReported, exitStatus, outdirCreated, toggles, delivered, failStage, failK>>
          ELSE raise(stage, count)
    /\ UNCHANGED <<clientMade>>
    /\ UNCHANGED pureVars

\* writer.writerow({...}) (lines 135-146, 198-208, 255-268): the row goes to the
\* file object's buffer; the buffering decides how much of it reaches the disk
export_writerow ==
    /\ pc = "run" /\ pos = "row"
    /\ HasMembers(stage) => mpage = MemberPageCount(MembersInHand)
    /\ written' = [written EXCEPT ![stage] = Append(@, Row(stage, proj, MembersInHand))]
    /\ \E n \in flushed[stage]..(TotalUnits(stage) + LineUnits) :
          flushed' = [flushed EXCEPT ![stage] = n]
    /\ pos' = "sleep"
    /\ UNCHANGED <<args, pc, stage, archivedOf, numGroups, numUsers, it, proj, count,
                   mpage, exists, openFile, evts, stageLog, printed, errReported, exitStatus,
                   outdirCreated, clientMade, netUsed, toggles, delivered, failStage, failK>>
    /\ UNCHANGED pureVars

\* if sleep_s > 0: time.sleep(sleep_s) (lines 148-149, 210-211, 270-271)
export_throttle ==
    /\ pc = "run" /\ pos = "sleep"
    /\ evts' = IF args.sleep > 0 THEN <<evts[2], "sleep">> ELSE evts
    /\ mpage' = 0
    /\ pos' = "next"
    /\ UNCHANGED <<args, pc, stage, archivedOf, numGroups, numUsers, it, proj, count,
                   written, exists, flushed, openFile, stageLog, printed, errReported, exitStatus,
                   outdirCreated, clientMade, netUsed, toggles, delivered, failStage, failK>>
    /\ UNCHANGED pureVars

\* The program reads a project's archived status only from the first project
\* listing to the end of the last project export; the server may flip it there.
ProjectsObserved ==
    \/ pc = "run" /\ stage = "projects" /\ pos \notin {"open", "list"}
    \/ pc = "seq" /\ stage = "projects" /\ args.include_archived
    \/ pc = "run" /\ stage = "archived"

\* the server archives or unarchives project p while the run is in progress
server_toggle_archived ==
    /\ ProjectsObserved
    /\ toggles < MaxToggles
    /\ \E p \in 1..NumProjects :
          archivedOf' = [archivedOf EXCEPT ![p] = ~archivedOf[p]]
    /\ toggles' = toggles + 1
    /\ UNCHANGED <<args, pc, stage, pos, numGroups, numUsers, it, proj, count, mpage,
                   written, exists, flushed, openFile, evts, stageLog, printed, errReported,
                   exitStatus, outdirCreated, clientMade, netUsed, delivered,
                   failStage, failK>>
    /\ UNCHANGED pureVars

\* the run against a server whose collections stay as they are
Next ==
    \/ main_check_args
    \/ main_mkdir
    \/ make_gitlab_client
    \/ main_sequence
    \/ export_open
    \/ export_list
    \/ export_next_page
    \/ export_next
    \/ export_close
    \/ export_get
    \/ export_members
    \/ format_members_next_page
    \/ export_writerow
    \/ export_throttle

Spec == Init /\ [][Next]_vars

\* the run against a server that archives and unarchives projects meanwhile
NextMut ==
    \/ Next
    \/ server_toggle_archived

InitMut ==
    /\ Init
    /\ args.url # <<>> /\ args.token # <<>>
    /\ args.sleep = 0
    /\ numGroups <= 1 /\ numUsers <= 1

SpecMut == InitMut /\ [][NextMut]_vars


----------------------------------------------------------------------------
(* format_members on its own *)

SeqsUpTo(S, n) == UNION {[1..k -> S] : k \in 0..n}

RunIdle ==
    /\ args = [url |-> StrUrl, token |-> StrTok, include_archived |-> FALSE,
               members_scope |-> "all", sleep |-> 0]
    /\ archivedOf = [p \in 1..NumProjects |-> FALSE]
    /\ numGroups = 0
    /\ numUsers = 0
    /\ RunStart

InitMembers ==
    /\ RunIdle
    /\ M1 \in SeqsUpTo(MemberUniverse, MaxMembers)
    /\ M2 \in SeqsUpTo(MemberUniverse, MaxMembers)
    /\ out1 = <<>>
    /\ out2 = <<>>
    /\ fmDone = FALSE
    /\ entry = EntAnon
    /\ token = <<>>
    /\ tokDone = FALSE

\* format_members(M1), format_members(M2)
summarize_members ==
    /\ ~fmDone
    /\ out1' = format_members(M1)
    /\ out2' = format_members(M2)
    /\ fmDone' = TRUE
    /\ UNCHANGED <<M1, M2, entry, token, tokDone>>
    /\ UNCHANGED runVars

SpecMembers == InitMembers /\ [][summarize_members]_vars

EntryUniverse ==
    {Entry(u, n, i, a) :
        u \in {<<>>, <<97, 108>>}, n \in {<<>>, <<98>>},
        i \in {<<>>, <<0>>, <<7>>, <<42>>},
        a \in {<<>>, <<-3>>, <<0>>, <<5>>, <<10>>, <<20>>, <<25>>, <<30>>, <<40>>,
               <<50>>, <<60>>, <<100>>}}

InitToken ==
    /\ RunIdle
    /\ M1 = <<>>
    /\ M2 = <<>>
    /\ out1 = <<>>
    /\ out2 = <<>>
    /\ fmDone = FALSE
    /\ entry \in EntryUniverse
    /\ token = <<>>
    /\ tokDone = FALSE

\* format_members([entry])
summarize_entry ==
    /\ ~tokDone
    /\ token' = format_members(<<entry>>)
    /\ tokDone' = TRUE
    /\ UNCHANGED <<M1, M2, out1, out2, fmDone, entry>>
    /\ UNCHANGED runVars

SpecToken == InitToken /\ [][summarize_entry]_vars

----------------------------------------------------------------------------
(* Vocabulary of the properties *)

Tokens(M) == {member_part(M[i]) : i \in DOMAIN M}

\* the pieces of str between the ';' characters
RECURSIVE SplitSemi(_, _)
SplitSemi(str, acc) ==
    IF str = <<>> THEN <<acc>>
    ELSE IF Head(str) = 59 THEN <<acc>> \o SplitSemi(Tail(str), <<>>)
    ELSE SplitSemi(Tail(str), Append(acc, Head(str)))

\* out is the tokens of T, each once, ascending, joined by ';'
IsSummaryOf(out, T) ==
    IF T = {} THEN out = <<>>
    ELSE LET parts == SplitSemi(out, <<>>)
         IN /\ Range(parts) = T
            /\ Len(parts) = Cardinality(T)
            /\ \A i \in 1..(Len(parts) - 1) : LexLess(parts[i], parts[i + 1])

IsDigit(c) == c \in 48..57

RECURSIVE DigitsValue(_)
DigitsValue(str) ==
    IF str = <<>> THEN 0
    ELSE 10 * DigitsValue(SubSeq(str, 1, Len(str) - 1)) + (str[Len(str)] - 48)

\* str is the decimal text of n, as str(n) writes it
IsDecimalOf(str, n) ==
    LET neg == str # <<>> /\ Head(str) = 45
        ds == IF neg THEN Tail(str) ELSE str
    IN /\ ds # <<>>
       /\ \A i \in DOMAIN ds : IsDigit(ds[i])
       /\ Len(ds) > 1 => ds[1] # 48
       /\ neg => DigitsValue(ds) # 0
       /\ n = (IF neg THEN 0 - DigitsValue(ds) ELSE DigitsValue(ds))

\* tok = prefix ++ rest for some rest satisfying P is expressed through these two
StartsWith(str, pre) == Len(str) >= Len(pre) /\ SubSeq(str, 1, Len(pre)) = pre
After(str, pre) == SubSeq(str, Len(pre) + 1, Len(str))

IdentityOK(id, e) ==
    IF e.username # <<>> THEN id = e.username
    ELSE IF e.name # <<>> THEN id = e.name
    ELSE /\ StartsWith(id, StrUserId)
         /\ IF e.id = <<>> THEN After(id, StrUserId) = <<>>
            ELSE IsDecimalOf(After(id, StrUserId), e.id[1])

RoleOK(role, level) ==
    IF level = <<>> THEN role = <<>>
    ELSE CASE level[1] = 10 -> role = StrGuest
           [] level[1] = 20 -> role = StrReporter
           [] level[1] = 30 -> role = StrDeveloper
           [] level[1] = 40 -> role = StrMaintainer
           [] level[1] = 50 -> role = StrOwner
           [] OTHER -> IsDecimalOf(role, level[1])

Ended(s) == \E i \in DOMAIN stageLog : stageLog[i] = <<"end", s>>
Started(s) == \E i \in DOMAIN stageLog : stageLog[i] = <<"start", s>>

IsPrefix(a, b) == Len(a) <= Len(b) /\ SubSeq(b, 1, Len(a)) = a

BothEvents(s) == <<(<<"start", s>>), (<<"end", s>>)>>

ExpectedLog ==
    BothEvents("projects")
      \o (IF args.include_archived THEN BothEvents("archived") ELSE <<>>)
      \o BothEvents("groups") \o BothEvents("users")

StageRank(s) ==
    CASE s = "auth" -> 0 [] s = "projects" -> 1 [] s = "archived" -> 2
      [] s = "groups" -> 3 [] s = "users" -> 4

RowIds(f) == [i \in 1..(Len(written[f]) - 1) |-> written[f][i + 1].id]
RowsOf(f) == {written[f][i] : i \in 2..Len(written[f])}

\* the row the exporter of stage s owes entity id of a server that stays as it is
ExpectedRow(s, id) ==
    [cols |-> s, kind |-> "row", id |-> id, archived |-> (s = "archived"),
     members |-> IF HasMembers(s)
                 THEN format_members(members_list(s, id, args.members_scope))
                 ELSE <<>>]

\* the disk holds all of f: the header, then complete rows for the entities ids
FileHolds(f, ids) ==
    /\ f \in exists
    /\ flushed[f] = LineUnits * (1 + Len(ids))
    /\ Len(written[f]) = 1 + Len(ids)
    /\ written[f][1] = [cols |-> f, kind |-> "header", id |-> 0, archived |-> FALSE,
                        members |-> <<>>]
    /\ \A i \in 1..Len(ids) :
          /\ written[f][i + 1].kind = "row"
          /\ written[f][i + 1].cols = f
          /\ written[f][i + 1].id = ids[i]

----------------------------------------------------------------------------
(* The claims *)

\* C1: once an exporter has completed against a server whose collection stayed
\* as it was, its file is the header, once and first, followed by exactly one
\* row per entity of the collection, in server order, over any number of
\* pages; for an empty collection the file is the header alone.
C1_OneRowPerEntity ==
    \A s \in Stages :
        Ended(s) =>
            /\ FileHolds(s, Collection(s))
            /\ \A i \in 1..Len(Collection(s)) :
                  written[s][i + 1] = ExpectedRow(s, Collection(s)[i])

C1_Witness ==
    /\ pc = "done"
    /\ numUsers = 0 /\ Len(written["users"]) = 1
    /\ numGroups > PageSize /\ Len(written["groups"]) = 1 + numGroups
    /\ Len(Collection("projects")) > PageSize

\* C2: the exporters start in the order active projects, archived projects,
\* groups, users, each after the previous one has ended; a run that gets
\* through has run active projects, groups and users, and archived projects
\* exactly if --include-archived was given; without the flag
\* archived_projects.csv is never opened.
C2_StageOrder ==
    /\ IsPrefix(stageLog, ExpectedLog)
    /\ pc = "done" => stageLog = ExpectedLog
    /\ exists = {stageLog[i][2] : i \in DOMAIN stageLog}
    /\ ~args.include_archived => "archived" \notin exists
    /\ (args.include_archived /\ Started("groups")) => Ended("archived")

C2_Witness ==
    /\ pc = "done"
    /\ ~args.include_archived
    /\ exists = {"projects", "groups", "users"}

\* C3: a failed fetch ends the run at once: the process is over with a
\* non-zero status and nothing further happens, the exporter that failed is
\* the last one started, no later file exists, and the output path is not
\* printed; the path is printed only when every requested exporter has ended.
C3_FailFast ==
    /\ failStage # "none" =>
          /\ pc = "aborted"
          /\ ~ENABLED Next
          /\ exitStatus # 0
          /\ ~printed
          /\ IF failStage = "auth" THEN stageLog = <<>>
             ELSE stageLog[Len(stageLog)] = <<"start", failStage>>
          /\ \A s \in Stages : StageRank(s) > StageRank(failStage) => s \notin exists
    /\ printed =>
          /\ failStage = "none"
          /\ \A s \in Stages : (s # "archived" \/ args.include_archived) => Ended(s)

C3_Witness ==
    /\ pc = "aborted"
    /\ failStage = "archived"
    /\ pos = "row"
    /\ Ended("projects")
    /\ exists = {"projects", "archived"}

\* C4 as stated: at every point every started file holds on disk the header
\* and a complete row for every row written so far (a flush per record).
C4_FlushedPerRecord ==
    \A f \in exists : flushed[f] = TotalUnits(f)

\* C4 as amended: the sinks are flushed when their file is closed, not per
\* record. At every point the disk copy of a started file is a prefix of what
\* was written, which may lack rows or end inside one while the file is open;
\* once the file is closed (the exporter ended, or a failed fetch aborted it)
\* it is the header followed by every row written.
C4_FlushedOnClose ==
    \A f \in exists :
        /\ flushed[f] <= TotalUnits(f)
        /\ Len(written[f]) >= 1 /\ written[f][1].kind = "header"
        /\ f # openFile => flushed[f] = TotalUnits(f)

C4_Witness ==
    /\ openFile = "groups"
    /\ Len(written["groups"]) = 3
    /\ flushed["groups"] < LineUnits
    /\ Len(written["projects"]) >= 2
    /\ flushed["projects"] = TotalUnits("projects")

\* C5: when a fetch fails while the k-th entity of an exporter is being
\* processed, that exporter's file holds the header and the complete rows of
\* the first k-1 entities and nothing of the k-th, and the file of every
\* exporter that ended before still holds all its rows.
C5_PartialProgressKept ==
    failStage \in Stages =>
        /\ failK >= 1
        /\ Len(delivered[failStage]) >= failK - 1
        /\ FileHolds(failStage, SubSeq(delivered[failStage], 1, failK - 1))
        /\ \A s \in Stages \ {failStage} :
              IF Ended(s) THEN FileHolds(s, delivered[s]) ELSE s \notin exists

C5_Witness ==
    /\ failStage = "groups"
    /\ failK = 2
    /\ pos = "members"
    /\ Len(written["groups"]) = 2
    /\ Len(written["projects"]) >= 2

\* C6: format_members depends only on the set of identity:role tokens of its
\* input: equal token sets give equal summaries, and the summary is the
\* distinct tokens, each once, in ascending order, joined by ';' (empty for
\* no entries).
C6_OrderIndependent ==
    fmDone =>
        /\ Tokens(M1) = Tokens(M2) => out1 = out2
        /\ IsSummaryOf(out1, Tokens(M1))
        /\ IsSummaryOf(out2, Tokens(M2))

C6_Witness ==
    /\ fmDone
    /\ Tokens(M1) = Tokens(M2)
    /\ Cardinality(Tokens(M1)) = 2
    /\ Len(M1) = 2 /\ Len(M2) = 3
    /\ member_part(M1[1]) # member_part(M2[1])
    /\ LexLess(member_part(M1[2]), member_part(M1[1]))

\* C7: the token of an entry is identity:role, the identity being the
\* username, else the name, else user_id_<id>, and the role being the name of
\* access level 10, 20, 30, 40 or 50, the decimal text of any other level, and
\* empty for no level.
C7_TokenShape ==
    tokDone =>
        \E n \in 0..Len(token) :
            /\ IdentityOK(SubSeq(token, 1, n), entry)
            /\ n < Len(token) /\ token[n + 1] = 58
            /\ RoleOK(SubSeq(token, n + 2, Len(token)), entry.access_level)

C7_Witness ==
    /\ tokDone
    /\ entry.username = <<>> /\ entry.name = <<>> /\ entry.id = <<42>>
    /\ entry.access_level = <<25>>

\* C8 as stated: whatever the server does, no project has a row in both
\* project files, every row of projects.csv says archived = False and every
\* row of archived_projects.csv says archived = True.
C8_Disjoint ==
    /\ \A r \in RowsOf("projects") : ~r.archived
    /\ \A r \in RowsOf("archived") : r.archived
    /\ Range(RowIds("projects")) \cap Range(RowIds("archived")) = {}

\* C8 as amended: the same, provided no project changes its archived status
\* between the first project listing and the end of the last project export.
C8_DisjointIfQuiet ==
    toggles = 0 => C8_Disjoint

C8_Witness ==
    /\ pc = "done"
    /\ toggles = 0
    /\ Len(written["projects"]) >= 2
    /\ Len(written["archived"]) >= 2

\* C9: with the URL or the token missing, main reports the error and exits
\* with a non-zero status before anything else: no client, no request, no
\* output directory, no file.
C9_ConfigErrorFirst ==
    /\ (args.url = <<>> \/ args.token = <<>>) =>
          /\ pc \in {"args", "exit2"}
          /\ ~clientMade /\ ~netUsed /\ ~outdirCreated
          /\ exists = {}
          /\ ~printed
    /\ pc = "exit2" =>
          /\ exitStatus # 0
          /\ errReported
          /\ args.url = <<>> \/ args.token = <<>>
    /\ errReported => pc = "exit2"

C9_Witness ==
    /\ pc = "exit2"
    /\ args.url # <<>>
    /\ args.token = <<>>

\* C10: with --sleep N > 0 no two API calls of an exporter follow one another
\* without a sleep in between, and with N = 0 there is no sleep at all.
C10_SleepBetweenCalls ==
    /\ args.sleep > 0 => evts # <<"api", "api">>
    /\ args.sleep = 0 => evts[1] # "sleep" /\ evts[2] # "sleep"

====
